---- MODULE Spec2Model ----
(***************************************************************************)
(* A model of the PDE operator-tree tools: the expression pretty-printer   *)
(* expr_to_str, the equation classifier classify_equation and the document *)
(* printer print_pde_file of parse_pde_jsons.py, and the batch drivers of  *)
(* generate_from_example_pdes.py and generate_pde_jsons.py.                *)
(*                                                                         *)
(* Python str values are TLA+ strings (Len, \o and SubSeq act on them).    *)
(* Python dicts that the code only reads with [] and .get() are records:   *)
(* a key is present iff it is in the record's DOMAIN.  Dicts the code      *)
(* iterates with .items(), and the Document itself, are sequences of       *)
(* <<key, value>> pairs, in the order of the JSON text.                    *)
(***************************************************************************)
EXTENDS Integers, Sequences, FiniteSets, TLC

VARIABLES
    node,        \* expr_to_str's argument
    out,         \* what the call did: Pending, or a Ret/Raise outcome
    eq_id,       \* classify_equation's argument
    category,    \* its result, NoCategory before the call
    data,        \* print_pde_file: the Document read from the file
    pc,          \* print_pde_file: the section it is about to print
    stdout,      \* the lines printed so far, each with the line of its print
    main_pdes,   \* print_pde_file's three lists of (eq_id, eq_str)
    boundaries,
    initials,
    idx,         \* the position in pdes of the loop of line 129
    program,     \* the batch driver that runs, "" when none does
    example_pdes,\* the file random_pde_list.json: whether it is there, its entries
    examples,    \* the entries the driver's loop goes over
    pos,         \* the position of the loop in examples
    invoked,     \* the pde_name of each call of convert_pde_to_json_file so far
    returned,    \* the text the generator returned in each of these calls
    files,       \* the files under random_pde_jsons: <<path, content>> pairs
    bpc          \* the driver's position: "main", "loop", "done" or "raised"

renderVars == <<node, out>>
classifyVars == <<eq_id, category>>
printVars == <<data, pc, stdout, main_pdes, boundaries, initials, idx>>
batchVars == <<program, example_pdes, examples, pos, invoked, returned, files, bpc>>
vars == <<node, out, eq_id, category, data, pc, stdout, main_pdes, boundaries,
          initials, idx, program, example_pdes, examples, pos, invoked, returned,
          files, bpc>>

\* ---------------------------------------------------------------- bounds

\* Longest args list of an op or fn node drawn as input.
MaxArgs == 3
\* Largest derivative order drawn as input.
MaxOrder == 3
\* Most op nodes in a tree of binary infix ops drawn as input.
MaxOps == 2
\* Most fragments an equation id drawn as input is made of.
MaxParts == 3
\* Most equations under pdes in a Document drawn as input.
MaxEqs == 2

\* ------------------------------------------------------------ Python values

\* A call not made yet.
Pending == [pending |-> TRUE]
\* Python's None, the value of .get("type") on a node without a type tag,
\* as a value that type tags can be compared with.
None == "<None>"

\* classify_equation not called yet.
NoCategory == ""

\* A call that returned v.
Ret(v) == [raised |-> "", val |-> v]
\* A call that raised exception e.
Raise(e) == [raised |-> e, val |-> ""]

\* d.get(key, default) on a record.
Get(d, key, default) == IF key \in DOMAIN d THEN d[key] ELSE default

\* The glyph U+2202 (partial derivative sign); the module text is ASCII,
\* so the one-character string "@" stands for it.
PartialGlyph == "@"
\* The glyph U+2208 (element of), likewise.
ElementGlyph == "#"

\* One decimal digit as a character.
Digit(d) == SubSeq("0123456789", d + 1, d + 1)

RECURSIVE NatToStr(_)
NatToStr(n) == IF n < 10 THEN Digit(n) ELSE NatToStr(n \div 10) \o Digit(n % 10)

\* str(n) / f"{n}" of a Python int.
IntToStr(n) == IF n < 0 THEN "-" \o NatToStr(-n) ELSE NatToStr(n)

RECURSIVE JoinFrom(_, _, _)
JoinFrom(sep, strs, i) ==
    IF i > Len(strs) THEN ""
    ELSE IF i = Len(strs) THEN strs[i]
    ELSE strs[i] \o sep \o JoinFrom(sep, strs, i + 1)

\* sep.join(strs)
Join(sep, strs) == JoinFrom(sep, strs, 1)

\* The outcome of evaluating a list of calls left to right: the first
\* exception raised, or "" when none raised.
FirstRaised(rs) ==
    IF \E i \in 1..Len(rs) : rs[i].raised # ""
    THEN rs[CHOOSE i \in 1..Len(rs) :
                /\ rs[i].raised # ""
                /\ \A j \in 1..(i - 1) : rs[j].raised = ""].raised
    ELSE ""

\* ------------------------------------------------------------ expr_to_str

\* node["key"]: the lookup that raises KeyError on a missing key.
HasKey(d, key) == key \in DOMAIN d

\* The set of binary infix operators of line 46.
InfixOps == {"+", "-", "*", "/", "^"}

\* A faulty deriv branch, to compare with RenderDeriv: the order is written
\* on the numerator only.
RenderDerivOrderOnce(n) ==
    IF ~HasKey(n, "dep") \/ ~HasKey(n, "wrt") THEN Raise("KeyError")
    ELSE LET order == Get(n, "order", 1) IN
         IF order = 1
         THEN Ret(PartialGlyph \o n.dep \o "/" \o PartialGlyph \o n.wrt)
         ELSE Ret(PartialGlyph \o "^" \o IntToStr(order) \o n.dep \o "/"
                  \o PartialGlyph \o n.wrt)

\* The deriv branch, lines 16-23.
RenderDeriv(n) ==
    IF ~HasKey(n, "dep") \/ ~HasKey(n, "wrt") THEN Raise("KeyError")
    ELSE LET order == Get(n, "order", 1) IN
         IF order = 1
         THEN Ret(PartialGlyph \o n.dep \o "/" \o PartialGlyph \o n.wrt)
         ELSE Ret(PartialGlyph \o "^" \o IntToStr(order) \o n.dep \o "/"
                  \o PartialGlyph \o n.wrt \o "^" \o IntToStr(order))

\* The dep, param and var branches, lines 25-29 and 34-35.
RenderName(n) == IF HasKey(n, "name") THEN Ret(n.name) ELSE Raise("KeyError")

\* The const branch, lines 31-32.
RenderConst(n) ==
    IF HasKey(n, "value") THEN Ret(IntToStr(n.value)) ELSE Raise("KeyError")

\* Faulty infix forms, to compare with InfixForm: one writes the product
\* with a star, the other leaves out the parentheses.
InfixFormStarred(op, left, right) ==
    IF op = "^" THEN "(" \o left \o "^" \o right \o ")"
    ELSE "(" \o left \o " " \o op \o " " \o right \o ")"

InfixFormBare(op, left, right) ==
    IF op = "*" THEN left \o " " \o right
    ELSE IF op = "^" THEN left \o "^" \o right
    ELSE left \o " " \o op \o " " \o right

\* The binary infix form, lines 49-53, of two rendered operands.
InfixForm(op, left, right) ==
    IF op = "*" THEN "(" \o left \o " " \o right \o ")"
    ELSE IF op = "^" THEN "(" \o left \o "^" \o right \o ")"
    ELSE "(" \o left \o " " \o op \o " " \o right \o ")"

\* The generic form of lines 40 and 56: head(arg0, arg1, ...).
CallForm(head, strs) == head \o "(" \o Join(", ", strs) \o ")"

\* A faulty test, to compare with IsInfix: two args or more.
IsInfixFromTwoArgs(op, args) == op \in InfixOps /\ Len(args) >= 2

\* The test of line 46.
IsInfix(op, args) == op \in InfixOps /\ Len(args) = 2

\* A faulty fall-through, to compare with RenderUnknown: the empty string.
RenderUnknownEmpty(n) == Ret("")

\* The fall-through of line 58.
RenderUnknown(n) == Ret("<?>")

RECURSIVE expr_to_str(_)
expr_to_str(n) ==
    LET node_type == Get(n, "type", None)
        args == Get(n, "args", <<>>)
        rs == [i \in 1..Len(args) |-> expr_to_str(args[i])]
        strs == [i \in 1..Len(args) |-> rs[i].val]
    IN
    IF node_type = "deriv" THEN RenderDeriv(n)
    ELSE IF node_type \in {"dep", "param", "var"} THEN RenderName(n)
    ELSE IF node_type = "const" THEN RenderConst(n)
    ELSE IF node_type = "fn" THEN
        IF ~HasKey(n, "name") THEN Raise("KeyError")
        ELSE IF FirstRaised(rs) # "" THEN Raise(FirstRaised(rs))
        ELSE Ret(CallForm(n.name, strs))
    ELSE IF node_type = "op" THEN
        IF ~HasKey(n, "op") THEN Raise("KeyError")
        ELSE IF FirstRaised(rs) # "" THEN Raise(FirstRaised(rs))
        ELSE IF IsInfix(n.op, args) THEN Ret(InfixForm(n.op, strs[1], strs[2]))
        ELSE Ret(CallForm(n.op, strs))
    ELSE RenderUnknown(n)

\* ------------------------------------------------------------ input nodes

Dep(name) == [type |-> "dep", name |-> name]
Param(name) == [type |-> "param", name |-> name]
Var(name) == [type |-> "var", name |-> name]
Const(value) == [type |-> "const", value |-> value]
Deriv(dep, wrt, order) == [type |-> "deriv", dep |-> dep, wrt |-> wrt, order |-> order]
Op(op, args) == [type |-> "op", op |-> op, args |-> args]
Fn(name, args) == [type |-> "fn", name |-> name, args |-> args]

\* The empty mapping {} (print_pde_file's default for a missing lhs, rhs
\* or value_expr).
EmptyMapping == <<>>

\* Derivative orders drawn as input.
Orders == (0..MaxOrder) \cup {12}

\* Nodes of the grammar with every required field.
WellFormedLeaves ==
    {Dep("u"), Param("nu"), Var("x"), Const(0), Const(7), Const(-12), Const(305),
     [type |-> "deriv", dep |-> "u", wrt |-> "x"]}
    \cup {Deriv("u", "x", k) : k \in Orders}
    \cup {Deriv("v", "t", 1), Deriv("v", "t", 2)}

\* Nodes of a recognized kind that lack a required field.
MalformedLeaves ==
    {[type |-> "deriv", wrt |-> "x", order |-> 1],
     [type |-> "deriv", dep |-> "u", order |-> 2],
     [type |-> "deriv"],
     [type |-> "dep"], [type |-> "param"], [type |-> "var"],
     [type |-> "const"],
     [type |-> "fn", args |-> <<>>],
     [type |-> "op", args |-> <<>>]}

\* Nodes whose type tag is not a recognized kind, or that have none.
UnknownLeaves ==
    {[type |-> "mystery"], EmptyMapping, [name |-> "u"],
     [type |-> "Deriv", dep |-> "u", wrt |-> "x"]}

\* The nodes drawn as arguments of an op or fn node: leaves of every sort
\* and two nested applications.
ArgPool ==
    {Dep("u"), Const(0), Deriv("u", "x", 1), [type |-> "mystery"], EmptyMapping,
     [type |-> "dep"],
     Op("+", <<Dep("u"), [type |-> "mystery"]>>),
     Fn("f", <<Var("x"), [type |-> "deriv"]>>)}

ArgLists == UNION {[1..k -> ArgPool] : k \in 0..MaxArgs}

\* Operator symbols drawn as input: the infix ones and two others.
OpSymbols == InfixOps \cup {"grad", "neg"}

Applications ==
    {Op(o, a) : o \in OpSymbols, a \in ArgLists}
    \cup {[type |-> "op", op |-> o] : o \in OpSymbols}
    \cup {[type |-> "op", args |-> a] : a \in ArgLists}
    \cup {Fn("f", a) : a \in ArgLists}
    \cup {[type |-> "fn", name |-> "f"]}
    \cup {[type |-> "fn", args |-> a] : a \in ArgLists}
    \cup {[type |-> "mystery", args |-> a] : a \in ArgLists}

Nodes == WellFormedLeaves \cup MalformedLeaves \cup UnknownLeaves \cup Applications

\* ------------------------------------------------------------ rendering runs

\* No expr_to_str call of its own is part of the run.
RenderIdle == node = EmptyMapping /\ out = Pending
\* No classify_equation call of its own is part of the run.
ClassifyIdle == eq_id = "" /\ category = NoCategory
\* No print_pde_file call is part of the run.
PrintIdle ==
    /\ data = <<>> /\ pc = "idle" /\ stdout = <<>>
    /\ main_pdes = <<>> /\ boundaries = <<>> /\ initials = <<>> /\ idx = 0

\* No batch driver is part of the run.
BatchIdle ==
    /\ program = "" /\ example_pdes = [isfile |-> FALSE, entries |-> <<>>]
    /\ examples = <<>> /\ pos = 0 /\ invoked = <<>> /\ returned = <<>>
    /\ files = {} /\ bpc = "idle"

RenderInit ==
    /\ node \in Nodes
    /\ out = Pending
    /\ ClassifyIdle
    /\ PrintIdle
    /\ BatchIdle

\* One call expr_to_str(node).
Render ==
    /\ out = Pending
    /\ out' = expr_to_str(node)
    /\ UNCHANGED <<node, classifyVars, printVars, batchVars>>

RenderNext == Render

SpecRender == RenderInit /\ [][RenderNext]_vars

\* ------------------------------------------------------------ claims on expr_to_str

\* The call of this run has been made.
Rendered == "raised" \in DOMAIN out

\* The type tags expr_to_str has a branch for.
KnownKinds == {"deriv", "dep", "param", "const", "var", "fn", "op"}

IsUnknown(n) == Get(n, "type", None) \notin KnownKinds

ArgsOf(n) == Get(n, "args", <<>>)

\* Every argument of n renders to a string.
ArgsRender(n) == \A i \in 1..Len(ArgsOf(n)) : expr_to_str(ArgsOf(n)[i]).raised = ""

\* C1: expr_to_str never raises: every node, a malformed node of a
\* recognized kind and a node holding one in its args included, renders to
\* a string.
C1_NeverRaises == Rendered => out.raised = ""

\* n with its i-th argument replaced by a.
WithArg(n, i, a) == [n EXCEPT !.args = [n.args EXCEPT ![i] = a]]

\* C2: a node whose type tag is none of the seven kinds (or that has no type
\* tag) renders to exactly "<?>" and does not raise; as the i-th argument of
\* an op or fn node whose own fields and other arguments render, it leaves
\* the enclosing node rendering, with "<?>" in the i-th position: the text
\* is that of the same node with a leaf named "<?>" there.
C2_UnknownPlaceholder ==
    Rendered =>
        /\ IsUnknown(node) => out = Ret("<?>")
        /\ \A i \in 1..Len(ArgsOf(node)) :
              ( /\ Get(node, "type", None) \in {"op", "fn"}
                /\ IsUnknown(node.args[i])
                /\ expr_to_str(WithArg(node, i, Dep("<?>"))).raised = "" )
              => /\ out.raised = ""
                 /\ out = expr_to_str(WithArg(node, i, Dep("<?>")))

\* C2's case: an op with an unknown second argument has been rendered.
C2_Witness ==
    /\ Rendered
    /\ node = Op("+", <<Dep("u"), [type |-> "mystery"]>>)
    /\ out = Ret("(u + <?>)")

IsOpNode(n) == Get(n, "type", None) = "op" /\ HasKey(n, "op")

IsBinaryInfixNode(n) ==
    IsOpNode(n) /\ n.op \in InfixOps /\ HasKey(n, "args") /\ Len(n.args) = 2

\* C5: an op node with operator in + - * / ^ and exactly 2 args, whose args
\* render to L and R, renders to "(L R)" for *, "(L^R)" for ^ and "(L OP R)"
\* for + - /, a string that starts with "(" and ends with ")"; u * du/dx
\* gives "(u @u/@x)" and 0 + 0 gives "(0 + 0)".
C5_InfixForm ==
    (Rendered /\ IsBinaryInfixNode(node) /\ ArgsRender(node)) =>
        LET L == expr_to_str(node.args[1]).val
            R == expr_to_str(node.args[2]).val
        IN  /\ out.raised = ""
            /\ node.op = "*" => out.val = "(" \o L \o " " \o R \o ")"
            /\ node.op = "^" => out.val = "(" \o L \o "^" \o R \o ")"
            /\ node.op \in {"+", "-", "/"}
                  => out.val = "(" \o L \o " " \o node.op \o " " \o R \o ")"
            /\ SubSeq(out.val, 1, 1) = "("
            /\ SubSeq(out.val, Len(out.val), Len(out.val)) = ")"
            /\ node = Op("*", <<Dep("u"), Deriv("u", "x", 1)>>)
                  => out.val = "(u " \o PartialGlyph \o "u/" \o PartialGlyph \o "x)"
            /\ node = Op("+", <<Const(0), Const(0)>>) => out.val = "(0 + 0)"

\* C5's case: the product u * du/dx has been rendered.
C5_Witness ==
    /\ Rendered
    /\ node = Op("*", <<Dep("u"), Deriv("u", "x", 1)>>)
    /\ out.raised = ""

\* C6: an op node with a number of args other than 2 (no args field
\* included), whatever its operator, or with 2 args and an operator outside
\* + - * / ^, whose args render, renders to the generic form: the operator,
\* "(", the renderings of the args joined by ", ", ")".
C6_GenericForm ==
    ( /\ Rendered
      /\ IsOpNode(node)
      /\ Len(ArgsOf(node)) # 2 \/ node.op \notin InfixOps
      /\ ArgsRender(node) ) =>
        LET texts == [i \in 1..Len(ArgsOf(node)) |-> expr_to_str(ArgsOf(node)[i]).val]
        IN  out = Ret(node.op \o "(" \o Join(", ", texts) \o ")")

\* C6's case: a + with three args has been rendered in the generic form.
C6_Witness ==
    /\ Rendered
    /\ node = Op("+", <<Dep("u"), Const(0), Deriv("u", "x", 1)>>)
    /\ out = Ret("+(u, 0, " \o PartialGlyph \o "u/" \o PartialGlyph \o "x)")

\* C8: a deriv node with dep, wrt and order renders to "@dep/@wrt" when
\* order = 1 and to "@^order dep/@wrt^order" (the order once before dep and
\* once after wrt) when order > 1; (u, x, 1) gives "@u/@x" and (u, x, 2)
\* gives "@^2u/@x^2" (@ standing for the partial-derivative glyph).
C8_DerivForm ==
    ( /\ Rendered
      /\ Get(node, "type", None) = "deriv"
      /\ HasKey(node, "dep") /\ HasKey(node, "wrt") /\ HasKey(node, "order") ) =>
        /\ node.order = 1
              => out = Ret(PartialGlyph \o node.dep \o "/" \o PartialGlyph \o node.wrt)
        /\ node.order > 1
              => out = Ret(PartialGlyph \o "^" \o IntToStr(node.order) \o node.dep
                           \o "/" \o PartialGlyph \o node.wrt
                           \o "^" \o IntToStr(node.order))
        /\ node = Deriv("u", "x", 1) => out.val = "@u/@x"
        /\ node = Deriv("u", "x", 2) => out.val = "@^2u/@x^2"
        /\ node = Deriv("u", "x", 12) => out.val = "@^12u/@x^12"

\* C8's case: a second-order derivative has been rendered.
C8_Witness ==
    /\ Rendered
    /\ node = Deriv("u", "x", 2)
    /\ out = Ret("@^2u/@x^2")

\* ------------------------------------------------------------ trees of binary ops

\* Leaves of the binary trees: a dep, a first-order deriv, a param whose
\* name is an operator symbol and a var with an empty name.  No rendered
\* leaf holds a space or a parenthesis.
BinLeaves == {Dep("a"), Deriv("u", "x", 1), Param("+"), Var("")}

\* levels[i + 1] being the trees of exactly i ops, the trees of exactly
\* Len(levels) ops.
NextLevel(levels) ==
    LET m == Len(levels) IN
    {Op(x[1], <<x[2], x[3]>>) :
        x \in UNION {InfixOps \X levels[i] \X levels[m + 1 - i] : i \in 1..m}}

RECURSIVE TreeLevels(_, _)
TreeLevels(levels, m) ==
    IF Len(levels) > m THEN levels
    ELSE TreeLevels(Append(levels, NextLevel(levels)), m)

\* The trees of exactly m two-argument infix ops over BinLeaves.
TreesWithOps(m) == TreeLevels(<<BinLeaves>>, m)[m + 1]

\* Trees of one op over leaves whose text may hold a "^".
CaretTrees ==
    {Op(o, <<l, r>>) : o \in InfixOps, l \in {Dep("a"), Dep("a^a")},
                       r \in {Dep("a"), Dep("a^a")}}

GroupInit ==
    /\ \/ \E m \in 0..MaxOps : node \in TreesWithOps(m)
       \/ node \in CaretTrees
    /\ out = Pending
    /\ ClassifyIdle
    /\ PrintIdle
    /\ BatchIdle

SpecGroup == GroupInit /\ [][RenderNext]_vars

\* What the claim calls a tree's shape, operators and leaf texts.
RECURSIVE Skeleton(_)
Skeleton(n) ==
    IF Get(n, "type", None) = "op"
    THEN [op |-> n.op, l |-> Skeleton(n.args[1]), r |-> Skeleton(n.args[2])]
    ELSE [leaf |-> expr_to_str(n).val]

\* The rendered texts of a tree's leaves.
RECURSIVE LeafTexts(_)
LeafTexts(n) ==
    IF Get(n, "type", None) = "op"
    THEN LeafTexts(n.args[1]) \cup LeafTexts(n.args[2])
    ELSE {expr_to_str(n).val}

\* The i-th character of s, "" past its end.
Char(s, i) == IF 1 <= i /\ i <= Len(s) THEN SubSeq(s, i, i) ELSE ""

HasChar(s, c) == \E i \in 1..Len(s) : Char(s, i) = c

\* The claim's condition on leaves.
PlainLeaves(n) == \A t \in LeafTexts(n) : ~HasChar(t, " ") /\ ~HasChar(t, "(") /\ ~HasChar(t, ")")

CaretFree(n) == \A t \in LeafTexts(n) : ~HasChar(t, "^")

\* The end of the leaf text that starts at i: the first position at or after
\* i that holds a space, a parenthesis or a "^", or is past the end.
RECURSIVE LeafEnd(_, _)
LeafEnd(s, i) ==
    IF Char(s, i) \in {"", " ", "(", ")", "^"} THEN i ELSE LeafEnd(s, i + 1)

NoParse == [ok |-> FALSE, skel |-> <<>>, next |-> 0]

\* A reader of rendered text: the skeleton of the expression that starts at
\* position i of s, and the position after it.  A parenthesis opens a group
\* "(L R)", "(L^R)" or "(L OP R)"; anything else is a leaf.
RECURSIVE Parse(_, _)
Parse(s, i) ==
    IF Char(s, i) = "("
    THEN LET L == Parse(s, i + 1)
             j == L.next
             op == IF Char(s, j) = "^" THEN "^"
                   ELSE IF Char(s, j) # " " THEN ""
                   ELSE IF Char(s, j + 1) \in {"+", "-", "/"} /\ Char(s, j + 2) = " "
                        THEN Char(s, j + 1)
                   ELSE "*"
             R == Parse(s, IF op \in {"^", "*"} THEN j + 1 ELSE j + 3)
         IN  IF ~L.ok \/ op = "" THEN NoParse
             ELSE IF ~R.ok \/ Char(s, R.next) # ")" THEN NoParse
             ELSE [ok |-> TRUE, skel |-> [op |-> op, l |-> L.skel, r |-> R.skel],
                   next |-> R.next + 1]
    ELSE [ok |-> TRUE, skel |-> [leaf |-> SubSeq(s, i, LeafEnd(s, i) - 1)],
          next |-> LeafEnd(s, i)]

\* The whole of s read as one expression.
Decode(s) == LET p == Parse(s, 1) IN IF p.ok /\ p.next = Len(s) + 1 THEN p ELSE NoParse

\* The trees of at most one op, the second tree of the pairs compared, each
\* with its rendering and its skeleton.
SmallTrees ==
    {[tree |-> t, text |-> expr_to_str(t), skel |-> Skeleton(t),
      caretFree |-> CaretFree(t)] : t \in TreesWithOps(0) \cup TreesWithOps(1) \cup CaretTrees}

UpperCase == "ABCDEFGHIJKLMNOPQRSTUVWXYZ"
LowerCase == "abcdefghijklmnopqrstuvwxyz"

\* The lower-case letter of each upper-case letter.
ToLower ==
    [c \in {Char(UpperCase, k) : k \in 1..Len(UpperCase)} |->
        Char(LowerCase, CHOOSE k \in 1..Len(UpperCase) : Char(UpperCase, k) = c)]

\* str.lower() of one character.
LowerChar(c) == IF c \in DOMAIN ToLower THEN ToLower[c] ELSE c

RECURSIVE LowerFrom(_, _)
LowerFrom(s, i) == IF i > Len(s) THEN "" ELSE LowerChar(Char(s, i)) \o LowerFrom(s, i + 1)

\* s.lower(), line 66.
Lower(s) == LowerFrom(s, 1)

\* The test `w in s` of lines 67-73.
Contains(s, w) == \E i \in 1..(Len(s) - Len(w) + 1) : SubSeq(s, i, i + Len(w) - 1) = w

\* A faulty order of the tests, to compare with classify_equation: "bc"
\* is looked for before "initial".
classify_bc_before_initial(id) ==
    LET lower == Lower(id) IN
    IF Contains(lower, "boundary") THEN "boundary"
    ELSE IF Contains(lower, "bc") THEN "boundary"
    ELSE IF Contains(lower, "initial") THEN "initial"
    ELSE IF Contains(lower, "ic") THEN "initial"
    ELSE "pde"

\* Lines 61-75.
classify_equation(id) ==
    LET lower == Lower(id) IN
    IF Contains(lower, "boundary") THEN "boundary"
    ELSE IF Contains(lower, "initial") THEN "initial"
    ELSE IF Contains(lower, "bc") THEN "boundary"
    ELSE IF Contains(lower, "ic") THEN "initial"
    ELSE "pde"

\* Pieces that equation ids are made of: the four keywords in several
\* cases, and letters that make a keyword across two pieces.
Fragments ==
    {"boundary", "Boundary", "initial", "INITIAL", "bc", "BC", "ic", "Ic",
     "b", "i", "c", "C", "u", "_"}

\* The ids of exactly k fragments.
RECURSIVE IdsOfParts(_)
IdsOfParts(k) ==
    IF k = 0 THEN {""}
    ELSE {x[1] \o x[2] : x \in IdsOfParts(k - 1) \X Fragments}

\* The ids named in the documentation, and near misses of the keywords.
ExampleIds ==
    {"bc_u_left", "ic_u", "ic_boundary", "u_momentum", "v_momentum", "continuity",
     "initial_bc_u", "BC_Initial", "bound_ary", "unknown", "periodic_x", "b_c",
     "Dirichlet_left", "boundar", "initia"}

ClassifyInit ==
    /\ \/ \E k \in 0..MaxParts : eq_id \in IdsOfParts(k)
       \/ eq_id \in ExampleIds
    /\ category = NoCategory
    /\ RenderIdle
    /\ PrintIdle
    /\ BatchIdle

\* One call classify_equation(eq_id).
Classify ==
    /\ category = NoCategory
    /\ category' = classify_equation(eq_id)
    /\ UNCHANGED <<eq_id, renderVars, printVars, batchVars>>

ClassifyNext == Classify

SpecClassify == ClassifyInit /\ [][ClassifyNext]_vars

\* The call of this run has been made.
Classified == category # NoCategory

\* w occurs in s, letter case ignored: at some position every character of
\* w equals the lower-cased character of s.
OccursIgnoringCase(s, w) ==
    \E i \in 1..Len(s) :
        \A k \in 1..Len(w) : LowerChar(Char(s, i + k - 1)) = Char(w, k)

\* C4: classify_equation is a case-insensitive substring test in a fixed
\* order, first match winning: "boundary" -> boundary, else "initial" ->
\* initial, else "bc" -> boundary, else "ic" -> initial, else pde; so
\* "ic_boundary" is boundary, an id with "initial" and "bc" but no "boundary"
\* is initial, "bc_u_left" is boundary, "ic_u" is initial, "u_momentum" is
\* pde, and the result is always one of the three labels.
C4_ClassifyOrder ==
    Classified =>
        /\ category \in {"pde", "boundary", "initial"}
        /\ category = ( IF OccursIgnoringCase(eq_id, "boundary") THEN "boundary"
                        ELSE IF OccursIgnoringCase(eq_id, "initial") THEN "initial"
                        ELSE IF OccursIgnoringCase(eq_id, "bc") THEN "boundary"
                        ELSE IF OccursIgnoringCase(eq_id, "ic") THEN "initial"
                        ELSE "pde" )
        /\ eq_id = "ic_boundary" => category = "boundary"
        /\ eq_id = "initial_bc_u" => category = "initial"
        /\ eq_id = "bc_u_left" => category = "boundary"
        /\ eq_id = "ic_u" => category = "initial"
        /\ eq_id = "u_momentum" => category = "pde"

\* C4's case: an id holding "ic" and, in capitals, "boundary" has been
\* classified as boundary.
C4_Witness == eq_id = "icBoundary" /\ category = "boundary"

\* ------------------------------------------------------------ print_pde_file

\* JSON values of a type the code tests with isinstance or `is None`, each
\* tagged with its Python type.
JNum(k) == [kind |-> "int", v |-> k]
JStr(t) == [kind |-> "str", v |-> t]
JNull == [kind |-> "NoneType", v |-> 0]
JList(items) == [kind |-> "list", v |-> items]
\* A dict: an expression node (a record) or a mapping (a sequence of pairs).
JDict(d) == [kind |-> "dict", v |-> d]

\* repr(v) of a tagged value: a number, a string (in single quotes), None,
\* a list, or a mapping kept as a sequence of pairs.
RECURSIVE PyRepr(_)
PyRepr(j) ==
    IF j.kind = "int" THEN IntToStr(j.v)
    ELSE IF j.kind = "str" THEN "'" \o j.v \o "'"
    ELSE IF j.kind = "list"
    THEN "[" \o Join(", ", [i \in 1..Len(j.v) |-> PyRepr(j.v[i])]) \o "]"
    ELSE IF j.kind = "dict"
    THEN "{" \o Join(", ", [i \in 1..Len(j.v) |->
                               "'" \o j.v[i][1] \o "': " \o PyRepr(j.v[i][2])]) \o "}"
    ELSE "None"

\* str(v) and f"{v}" of a tagged value: a string as it is, anything else
\* as its repr.
PyStr(j) == IF j.kind = "str" THEN j.v ELSE PyRepr(j)

\* d.get(key, default) on a dict kept as a sequence of <<key, value>> pairs.
DictGet(d, key, default) ==
    IF \E i \in 1..Len(d) : d[i][1] = key
    THEN d[CHOOSE i \in 1..Len(d) : d[i][1] = key][2]
    ELSE default

\* The path print_pde_file is called with.
Path == "example_pde_jsons/ns.json"

\* os.path.basename(path): what follows the last "/".
RECURSIVE BasenameFrom(_, _)
BasenameFrom(path, i) ==
    IF i = 0 \/ Char(path, i) = "/" THEN SubSeq(path, i + 1, Len(path))
    ELSE BasenameFrom(path, i - 1)

Basename(path) == BasenameFrom(path, Len(path))

\* One printed line: the text, and the source line of the print call.
Line(at, text) == [at |-> at, text |-> text]

\* Lines 82-88.
HeaderLines(d) ==
    LET metadata == DictGet(d, "metadata", EmptyMapping)
        name == Get(metadata, "name", Basename(Path))
        description == Get(metadata, "description", "")
    IN  <<Line(86, "\n=== " \o name \o " ===")>>
        \o (IF description # "" THEN <<Line(88, "Description: " \o description)>>
            ELSE <<>>)

\* Lines 91-98.
VariableLines(d) ==
    LET variables == DictGet(d, "variables", EmptyMapping)
        indep == Get(variables, "independent", <<>>)
        dep == Get(variables, "dependent", <<>>)
    IN  (IF indep # <<>> THEN <<Line(96, "Independent variables: " \o Join(", ", indep))>>
         ELSE <<>>)
        \o (IF dep # <<>> THEN <<Line(98, "Dependent variables: " \o Join(", ", dep))>>
            ELSE <<>>)

\* Lines 101-110.
ParameterLines(d) ==
    LET parameters == DictGet(d, "parameters", <<>>)
        param_strs == [i \in 1..Len(parameters) |->
                          IF parameters[i][2].kind = "NoneType"
                          THEN parameters[i][1] \o " (unspecified)"
                          ELSE parameters[i][1] \o " = " \o PyStr(parameters[i][2])]
    IN  IF parameters # <<>>
        THEN <<Line(110, "Parameters: " \o Join(", ", param_strs))>>
        ELSE <<>>

\* Lines 119-120: a bound of an interval as text.
BoundStr(a) == IF a.kind = "dict" THEN expr_to_str(a.v) ELSE Ret(PyStr(a))

\* Lines 116-121 from the i-th entry of domain on: the lines printed, and
\* the exception that ended the loop ("" when it ran to its end).
RECURSIVE DomainFrom(_, _)
DomainFrom(domain, i) ==
    IF i > Len(domain) THEN [lines |-> <<>>, raised |-> ""]
    ELSE LET var == domain[i][1]
             interval == domain[i][2]
             rest == DomainFrom(domain, i + 1)
         IN  IF interval.kind = "list" /\ Len(interval.v) = 2
             THEN LET a_str == BoundStr(interval.v[1])
                      b_str == BoundStr(interval.v[2])
                  IN  IF a_str.raised # "" THEN [lines |-> <<>>, raised |-> a_str.raised]
                      ELSE IF b_str.raised # "" THEN [lines |-> <<>>, raised |-> b_str.raised]
                      ELSE [lines |-> <<Line(121, "  " \o var \o " " \o ElementGlyph \o " [" \o a_str.val
                                                  \o ", " \o b_str.val \o "]")>>
                                      \o rest.lines,
                            raised |-> rest.raised]
             ELSE rest

\* Lines 113-122.
DomainLines(d) ==
    LET domain == DictGet(d, "domain", <<>>)
        body == DomainFrom(domain, 1)
    IN  IF domain = <<>> THEN [lines |-> <<>>, raised |-> ""]
        ELSE IF body.raised # ""
             THEN [lines |-> <<Line(115, "Domain:")>> \o body.lines, raised |-> body.raised]
        ELSE [lines |-> <<Line(115, "Domain:")>> \o body.lines \o <<Line(122, "")>>,
              raised |-> ""]

\* Lines 130-133 for one equation: (eq_id, eq_str), or the exception raised.
EquationEntry(eq) ==
    LET id == Get(eq, "equation_id", "unknown")
        lhs == expr_to_str(Get(eq, "lhs", EmptyMapping))
        rhs == expr_to_str(Get(eq, "rhs", EmptyMapping))
    IN  IF lhs.raised # "" THEN Raise(lhs.raised)
        ELSE IF rhs.raised # "" THEN Raise(rhs.raised)
        ELSE Ret(<<id, lhs.val \o " = " \o rhs.val>>)

\* The loops of lines 144-145, 148-149 and 152-153.
GroupLines(at, group) ==
    [i \in 1..Len(group) |-> Line(at, "  [" \o group[i][1] \o "]  " \o group[i][2])]

\* Lines 169-173 and 190-196: a location or spec as text.
PlaceStr(loc) ==
    IF loc.kind = "dict"
    THEN IF loc.v = <<>> THEN "?"
         ELSE Join(", ", [i \in 1..Len(loc.v) |-> loc.v[i][1] \o "=" \o PyStr(loc.v[i][2])])
    ELSE PyStr(loc)

\* Lines 162-178 and 183-201 for one condition record: its line, or the
\* exception raised.  key is "location" (initial) or "spec" (boundary);
\* default_type is "ic" or "?".
ConditionLine(at, c, key, default_type) ==
    LET dep == Get(c, "dep", "?")
        c_type == Get(c, "type", default_type)
        loc == Get(c, key, JDict(<<>>))
        val_expr == expr_to_str(Get(c, "value_expr", EmptyMapping))
        notes == Get(c, "notes", "")
        line == "  [" \o c_type \o "] " \o dep \o " at " \o PlaceStr(loc) \o ": "
                \o val_expr.val
    IN  IF val_expr.raised # "" THEN Raise(val_expr.raised)
        ELSE Ret(Line(at, IF notes # "" THEN line \o " (" \o notes \o ")" ELSE line))

\* The loop over a top-level condition list from its i-th record on.
RECURSIVE ConditionsFrom(_, _, _, _, _)
ConditionsFrom(at, cs, i, key, default_type) ==
    IF i > Len(cs) THEN [lines |-> <<>>, raised |-> ""]
    ELSE LET one == ConditionLine(at, cs[i], key, default_type)
             rest == ConditionsFrom(at, cs, i + 1, key, default_type)
         IN  IF one.raised # "" THEN [lines |-> <<>>, raised |-> one.raised]
             ELSE [lines |-> <<one.val>> \o rest.lines, raised |-> rest.raised]

\* A faulty printing of initial_conditions, to compare with TopIcLines: the
\* heading is printed whether or not there are records.
TopIcLinesWithHeading(d) ==
    LET top_ics == DictGet(d, "initial_conditions", <<>>)
        body == ConditionsFrom(178, top_ics, 1, "location", "ic")
    IN  [lines |-> <<Line(160, "\nInitial condition(s) (from 'initial_conditions'):")>>
                   \o body.lines,
         raised |-> body.raised]

\* Lines 159-178.
TopIcLines(d) ==
    LET top_ics == DictGet(d, "initial_conditions", <<>>)
        body == ConditionsFrom(178, top_ics, 1, "location", "ic")
    IN  IF top_ics = <<>> THEN [lines |-> <<>>, raised |-> ""]
        ELSE [lines |-> <<Line(160, "\nInitial condition(s) (from 'initial_conditions'):")>>
                        \o body.lines,
              raised |-> body.raised]

\* Lines 180-201.
TopBcLines(d) ==
    LET top_bcs == DictGet(d, "boundary_conditions", <<>>)
        body == ConditionsFrom(201, top_bcs, 1, "spec", "?")
    IN  IF top_bcs = <<>> THEN [lines |-> <<>>, raised |-> ""]
        ELSE [lines |-> <<Line(181, "\nBoundary condition(s) (from 'boundary_conditions'):")>>
                        \o body.lines,
              raised |-> body.raised]

\* One section has printed `lines` and goes on to `next`.
Printed(lines, next) ==
    /\ stdout' = stdout \o lines
    /\ pc' = next

\* One section has printed `lines` and then raised: the call is over.
PrintedThenRaised(lines) == Printed(lines, "raised")

\* Lines 82-88: name and description.
PrintHeader ==
    /\ pc = "header"
    /\ Printed(HeaderLines(data), "variables")
    /\ UNCHANGED <<data, main_pdes, boundaries, initials, idx, renderVars, classifyVars, batchVars>>

\* Lines 91-98.
PrintVariables ==
    /\ pc = "variables"
    /\ Printed(VariableLines(data), "parameters")
    /\ UNCHANGED <<data, main_pdes, boundaries, initials, idx, renderVars, classifyVars, batchVars>>

\* Lines 101-110.
PrintParameters ==
    /\ pc = "parameters"
    /\ Printed(ParameterLines(data), "domain")
    /\ UNCHANGED <<data, main_pdes, boundaries, initials, idx, renderVars, classifyVars, batchVars>>

\* Lines 113-127: the domain, then the three lists start empty.
PrintDomain ==
    /\ pc = "domain"
    /\ IF DomainLines(data).raised # "" THEN PrintedThenRaised(DomainLines(data).lines)
       ELSE Printed(DomainLines(data).lines, "classify")
    /\ main_pdes' = <<>> /\ boundaries' = <<>> /\ initials' = <<>>
    /\ idx' = 1
    /\ UNCHANGED <<data, renderVars, classifyVars, batchVars>>

\* A faulty turn of the loop, to compare with ClassifyEq: the type field of
\* the equation, when it names a group, decides instead of the id.
ClassifyEqByType ==
    /\ pc = "classify"
    /\ idx <= Len(DictGet(data, "pdes", <<>>))
    /\ LET eq == DictGet(data, "pdes", <<>>)[idx]
           entry == EquationEntry(eq)
           type == Get(eq, "type", "equals")
           cat == IF type \in {"boundary", "initial"} THEN type
                  ELSE classify_equation(Get(eq, "equation_id", "unknown"))
       IN  IF entry.raised # ""
           THEN /\ pc' = "raised"
                /\ UNCHANGED <<main_pdes, boundaries, initials, idx>>
           ELSE /\ main_pdes' = IF cat = "pde" THEN Append(main_pdes, entry.val)
                                ELSE main_pdes
                /\ boundaries' = IF cat = "boundary" THEN Append(boundaries, entry.val)
                                 ELSE boundaries
                /\ initials' = IF cat \notin {"pde", "boundary"}
                               THEN Append(initials, entry.val) ELSE initials
                /\ idx' = idx + 1
                /\ pc' = "classify"
    /\ UNCHANGED <<data, stdout, renderVars, classifyVars, batchVars>>

\* Lines 129-141: one turn of the loop over pdes.
ClassifyEq ==
    /\ pc = "classify"
    /\ idx <= Len(DictGet(data, "pdes", <<>>))
    /\ LET eq == DictGet(data, "pdes", <<>>)[idx]
           entry == EquationEntry(eq)
           cat == classify_equation(Get(eq, "equation_id", "unknown"))
       IN  IF entry.raised # ""
           THEN /\ pc' = "raised"
                /\ UNCHANGED <<main_pdes, boundaries, initials, idx>>
           ELSE /\ main_pdes' = IF cat = "pde" THEN Append(main_pdes, entry.val)
                                ELSE main_pdes
                /\ boundaries' = IF cat = "boundary" THEN Append(boundaries, entry.val)
                                 ELSE boundaries
                /\ initials' = IF cat \notin {"pde", "boundary"}
                               THEN Append(initials, entry.val) ELSE initials
                /\ idx' = idx + 1
                /\ pc' = "classify"
    /\ UNCHANGED <<data, stdout, renderVars, classifyVars, batchVars>>

\* Lines 143-145, after the loop.
PrintPdes ==
    /\ pc = "classify"
    /\ idx > Len(DictGet(data, "pdes", <<>>))
    /\ Printed(<<Line(143, "\nPDE(s):")>> \o GroupLines(145, main_pdes), "boundaries")
    /\ UNCHANGED <<data, main_pdes, boundaries, initials, idx, renderVars, classifyVars, batchVars>>

\* Lines 147-149.
PrintBoundaries ==
    /\ pc = "boundaries"
    /\ Printed(<<Line(147, "\nBoundary condition(s) (from 'pdes'):")>>
               \o GroupLines(149, boundaries), "initials")
    /\ UNCHANGED <<data, main_pdes, boundaries, initials, idx, renderVars, classifyVars, batchVars>>

\* Lines 151-153.
PrintInitials ==
    /\ pc = "initials"
    /\ Printed(<<Line(151, "\nInitial condition(s) (from 'pdes'):")>>
               \o GroupLines(153, initials), "top_ics")
    /\ UNCHANGED <<data, main_pdes, boundaries, initials, idx, renderVars, classifyVars, batchVars>>

\* A faulty end of the printing, to compare with PrintTopIcs: the
\* boundary_conditions section comes before the initial_conditions section.
PrintTopBcsThenIcs ==
    /\ pc = "top_ics"
    /\ IF TopBcLines(data).raised # "" THEN PrintedThenRaised(TopBcLines(data).lines)
       ELSE IF TopIcLines(data).raised # ""
            THEN PrintedThenRaised(TopBcLines(data).lines \o TopIcLines(data).lines)
       ELSE Printed(TopBcLines(data).lines \o TopIcLines(data).lines, "done")
    /\ UNCHANGED <<data, main_pdes, boundaries, initials, idx, renderVars, classifyVars, batchVars>>

\* Lines 159-178.
PrintTopIcs ==
    /\ pc = "top_ics"
    /\ IF TopIcLines(data).raised # "" THEN PrintedThenRaised(TopIcLines(data).lines)
       ELSE Printed(TopIcLines(data).lines, "top_bcs")
    /\ UNCHANGED <<data, main_pdes, boundaries, initials, idx, renderVars, classifyVars, batchVars>>

\* Lines 180-201, and the return.
PrintTopBcs ==
    /\ pc = "top_bcs"
    /\ IF TopBcLines(data).raised # "" THEN PrintedThenRaised(TopBcLines(data).lines)
       ELSE Printed(TopBcLines(data).lines, "done")
    /\ UNCHANGED <<data, main_pdes, boundaries, initials, idx, renderVars, classifyVars, batchVars>>

PrintNext ==
    \/ PrintHeader
    \/ PrintVariables
    \/ PrintParameters
    \/ PrintDomain
    \/ ClassifyEq
    \/ PrintPdes
    \/ PrintBoundaries
    \/ PrintInitials
    \/ PrintTopIcs
    \/ PrintTopBcs

\* ------------------------------------------------------------ input Documents

Eq(id, lhs, rhs) == [equation_id |-> id, lhs |-> lhs, rhs |-> rhs, type |-> "equals"]

\* The equation records drawn as input: one of each class, two of the same
\* id with different sides and type field, one without equation_id, one
\* without lhs, and one whose lhs is a deriv without dep.
EqPool ==
    {Eq("u_momentum", Deriv("u", "t", 1), Op("*", <<Param("nu"), Deriv("u", "x", 2)>>)),
     Eq("bc_u_left", Dep("u"), Const(0)),
     [equation_id |-> "bc_u_left", lhs |-> Deriv("u", "x", 1),
      rhs |-> [type |-> "mystery"], type |-> "initial"],
     [equation_id |-> "ic_u", rhs |-> Fn("u0", <<Var("x")>>), type |-> "boundary"],
     [lhs |-> Dep("u"), rhs |-> Const(1)],
     Eq("continuity", [type |-> "deriv", wrt |-> "x"], Const(0))}

EqLists == UNION {[1..k -> EqPool] : k \in 0..MaxEqs}

MetaNamed == [name |-> "NS"]
MetaDescribed == [name |-> "NS", description |-> "Flow"]
Variables == [independent |-> <<"x", "t">>, dependent |-> <<"u">>]
Parameters == <<<<"nu", JNum(3)>>, <<"rho", JNull>>>>
Domain ==
    <<<<"x", JList(<<JNum(0), JDict(Param("L"))>>)>>,
      <<"t", JList(<<JNum(0), JNum(10)>>)>>,
      <<"y", JStr("all")>>>>
InitialConditions ==
    <<[dep |-> "u", type |-> "ic", location |-> JDict(<<<<"t", JNum(0)>>>>),
       value_expr |-> Fn("u0", <<Var("x")>>), notes |-> "given"],
      [dep |-> "v", location |-> JStr("t=0"), value_expr |-> Const(0)],
      [dep |-> "bc_w", type |-> "initial", spec |-> JStr("t=0"), value_expr |-> Const(1)],
      [dep |-> "p", location |-> JList(<<JNum(0), JStr("a")>>), value_expr |-> Dep("p0")]>>
BoundaryConditions ==
    <<[dep |-> "u", type |-> "dirichlet",
       spec |-> JDict(<<<<"x", JNum(0)>>, <<"side", JStr("left")>>>>),
       value_expr |-> Const(0)],
      [dep |-> "u", type |-> "neumann", spec |-> JStr("x=L"), notes |-> "wall"],
      [dep |-> "ic_v", type |-> "periodic",
       location |-> JDict(<<<<"x", JNum(1)>>, <<"y", JNull>>>>), value_expr |-> Var("x")],
      [dep |-> "p", spec |-> JNum(-3), value_expr |-> Const(0)]>>

\* The optional fields of a Document.
OptionalFields == {"description", "domain", "initial_conditions", "boundary_conditions"}

\* The fields of the Document that has the optional fields `present` and
\* the equations eqs, as a mapping from key to value.
FieldsOf(present, eqs) ==
    [k \in {"metadata", "variables", "parameters", "pdes"} \cup (present \ {"description"}) |->
        CASE k = "metadata" -> IF "description" \in present THEN MetaDescribed ELSE MetaNamed
          [] k = "variables" -> Variables
          [] k = "parameters" -> Parameters
          [] k = "domain" -> Domain
          [] k = "pdes" -> eqs
          [] k = "initial_conditions" -> InitialConditions
          [] k = "boundary_conditions" -> BoundaryConditions]

\* Orders in which the JSON text may give the keys of a Document.
KeyOrders ==
    {<<"metadata", "variables", "parameters", "domain", "pdes", "initial_conditions",
       "boundary_conditions">>,
     <<"boundary_conditions", "initial_conditions", "pdes", "domain", "parameters",
       "variables", "metadata">>}

\* The Document of the given fields with its keys in the given order.
DocOf(fields, order) ==
    LET keys == SelectSeq(order, LAMBDA k : k \in DOMAIN fields)
    IN  [i \in 1..Len(keys) |-> <<keys[i], fields[keys[i]]>>]

\* Documents that lack a required field, have empty lists, or hold a
\* malformed node in the domain or in a condition.
OddDocs ==
    {<<>>,
     <<<<"pdes", <<Eq("ic_u", Dep("u"), Const(0))>>>>>>,
     <<<<"metadata", [description |-> "no name"]>>,
       <<"variables", [dependent |-> <<"u", "v">>]>>,
       <<"parameters", <<>>>>, <<"domain", <<>>>>,
       <<"initial_conditions", <<>>>>, <<"boundary_conditions", <<>>>>>>,
     <<<<"metadata", MetaNamed>>,
       <<"domain", <<<<"x", JList(<<JNum(0), JNum(1)>>)>>,
                     <<"t", JList(<<JDict([type |-> "param"]), JNum(1)>>)>>>>>>,
       <<"pdes", <<Eq("bc_u", Dep("u"), Const(0))>>>>>>,
     <<<<"metadata", MetaNamed>>,
       <<"pdes", <<Eq("u_t", Dep("u"), Const(0))>>>>,
       <<"initial_conditions",
         <<[dep |-> "u", value_expr |-> Const(0)],
           [dep |-> "v", value_expr |-> [type |-> "const"]]>>>>,
       <<"boundary_conditions", BoundaryConditions>>>>,
     <<<<"metadata", MetaNamed>>,
       <<"boundary_conditions",
         <<[dep |-> "u", value_expr |-> [type |-> "fn", args |-> <<>>]]>>>>>>}

PrintInit ==
    /\ \/ \E present \in SUBSET OptionalFields, eqs \in EqLists, order \in KeyOrders :
              data = DocOf(FieldsOf(present, eqs), order)
       \/ data \in OddDocs
    /\ pc = "header"
    /\ stdout = <<>>
    /\ main_pdes = <<>> /\ boundaries = <<>> /\ initials = <<>>
    /\ idx = 0
    /\ RenderIdle
    /\ ClassifyIdle
    /\ BatchIdle

SpecPrint == PrintInit /\ [][PrintNext]_vars

\* ------------------------------------------------------------ claims on print_pde_file

\* The place of a print call in the list of sections: name, description,
\* variable lists, parameter list, domain, PDEs, boundary and initial
\* equations from pdes, initial_conditions, boundary_conditions.
SectionRank(at) ==
    CASE at = 86 -> 1
      [] at = 88 -> 2
      [] at \in {96, 98} -> 3
      [] at = 110 -> 4
      [] at \in {115, 121, 122} -> 5
      [] at \in {143, 145} -> 6
      [] at \in {147, 149} -> 7
      [] at \in {151, 153} -> 8
      [] at \in {160, 178} -> 9
      [] at \in {181, 201} -> 10

\* The lines of stdout printed by the print call of source line `at`.
PrintedAt(at) == SelectSeq(stdout, LAMBDA l : l.at = at)

\* C9: whatever the Document and the order of its keys, the sections come
\* out in one fixed order: the name, the description, the variable lists,
\* the parameter list, the domain, the PDEs, boundary and initial equations
\* found under pdes, then initial_conditions, then boundary_conditions: no
\* line of a section is printed after a line of a later section.
C9_SectionOrder ==
    /\ \A i, j \in 1..Len(stdout) :
          i < j => SectionRank(stdout[i].at) <= SectionRank(stdout[j].at)
    /\ stdout # <<>> => stdout[1].at = 86
    /\ Len(PrintedAt(86)) <= 1

\* C9's case: a Document whose keys come in reverse order, with every
\* section, has been printed to the end.
C9_Witness ==
    /\ pc = "done"
    /\ data # <<>> /\ data[1][1] = "boundary_conditions"
    /\ \A at \in {86, 88, 96, 98, 110, 115, 121, 143, 145, 147, 149, 151,
                  160, 178, 181, 201} : PrintedAt(at) # <<>>

\* The equations under pdes.
PdesOf(d) == DictGet(d, "pdes", <<>>)

\* The equations of eqs that classify_equation puts in category cat, by
\* their equation_id alone ("unknown" when there is none), in their order.
InCategory(eqs, cat) ==
    SelectSeq(eqs, LAMBDA e : classify_equation(Get(e, "equation_id", "unknown")) = cat)

\* The (eq_id, eq_str) entries of a list of equations.
EntriesOf(eqs) == [i \in 1..Len(eqs) |-> EquationEntry(eqs[i]).val]

\* C10: when print_pde_file goes through pdes, the equations gone through
\* so far are split over the three lists, each in the list of
\* classify_equation of its equation_id alone (a record without
\* equation_id counting as "unknown", a PDE), none dropped or repeated and
\* each list in the order of pdes; once the loop has ended the lists hold
\* every equation of pdes, and each group is printed in that order.
C10_Grouping ==
    idx >= 1 =>
        LET seen == SubSeq(PdesOf(data), 1, idx - 1) IN
        /\ main_pdes = EntriesOf(InCategory(seen, "pde"))
        /\ boundaries = EntriesOf(InCategory(seen, "boundary"))
        /\ initials = EntriesOf(InCategory(seen, "initial"))
        /\ Len(main_pdes) + Len(boundaries) + Len(initials) = idx - 1
        /\ PrintedAt(143) # <<>> =>
              /\ idx - 1 = Len(PdesOf(data))
              /\ PrintedAt(145) = GroupLines(145, EntriesOf(InCategory(PdesOf(data), "pde")))
        /\ PrintedAt(147) # <<>> =>
              PrintedAt(149) = GroupLines(149, EntriesOf(InCategory(PdesOf(data), "boundary")))
        /\ PrintedAt(151) # <<>> =>
              PrintedAt(153) = GroupLines(153, EntriesOf(InCategory(PdesOf(data), "initial")))

\* C10's case: two equations of the same id "bc_u_left", the first of them
\* with type "initial", have been printed under boundary in their order.
C10_Witness ==
    /\ pc = "done"
    /\ Len(PdesOf(data)) = 2
    /\ boundaries = <<<<"bc_u_left", PartialGlyph \o "u/" \o PartialGlyph \o "x = <?>">>,
                      <<"bc_u_left", "u = 0">>>>
    /\ main_pdes = <<>> /\ initials = <<>>
    /\ Len(PrintedAt(149)) = 2

\* ------------------------------------------------------------ text of a response

\* The characters str.strip() removes and json.loads skips between tokens.
Whitespace == {" ", "\n", "\t", "\r"}

\* The slice of s from its m-th to its n-th character, as Python clips it.
Slice(s, m, n) ==
    LET from == IF m < 1 THEN 1 ELSE m
        to == IF n > Len(s) THEN Len(s) ELSE n
    IN  IF from > to THEN "" ELSE SubSeq(s, from, to)

\* str.lstrip(), str.rstrip() and str.strip().
RECURSIVE LStrip(_)
LStrip(s) ==
    IF s # "" /\ Char(s, 1) \in Whitespace THEN LStrip(Slice(s, 2, Len(s))) ELSE s

RECURSIVE RStrip(_)
RStrip(s) ==
    IF s # "" /\ Char(s, Len(s)) \in Whitespace THEN RStrip(Slice(s, 1, Len(s) - 1)) ELSE s

Strip(s) == RStrip(LStrip(s))

\* str.startswith(prefix).
StartsWith(s, prefix) == Len(s) >= Len(prefix) /\ Slice(s, 1, Len(prefix)) = prefix

\* str.split(sep): the pieces of s between the occurrences of sep, from
\* left to right; `start` is where the current piece began.
RECURSIVE SplitFrom(_, _, _, _)
SplitFrom(s, sep, i, start) ==
    IF i + Len(sep) - 1 > Len(s) THEN <<Slice(s, start, Len(s))>>
    ELSE IF Slice(s, i, i + Len(sep) - 1) = sep
         THEN <<Slice(s, start, i - 1)>> \o SplitFrom(s, sep, i + Len(sep), i + Len(sep))
         ELSE SplitFrom(s, sep, i + 1, start)

Split(s, sep) == SplitFrom(s, sep, 1, 1)

\* max(candidates, key=len): the first of the longest.
MaxByLen(candidates) ==
    LET i == CHOOSE k \in 1..Len(candidates) :
                 /\ \A j \in 1..Len(candidates) : Len(candidates[j]) <= Len(candidates[k])
                 /\ \A j \in 1..(k - 1) : Len(candidates[j]) < Len(candidates[k])
    IN  candidates[i]

\* json.loads, as far as whether it raises JSONDecodeError: a recogniser of
\* JSON text made of objects, arrays, strings, integers and the three
\* literals.  Each ...End(s, i) reads one construct from position i and
\* gives the position after it, or 0 when the text is not JSON there.
\* The Markdown fence of three backquotes; "~" stands for the backquote.
Fence == "~~~"
Quote == "\""
Digits == {"0", "1", "2", "3", "4", "5", "6", "7", "8", "9"}

RECURSIVE SkipWs(_, _)
SkipWs(s, i) == IF Char(s, i) \in Whitespace THEN SkipWs(s, i + 1) ELSE i

HexDigits == Digits \cup {"a", "b", "c", "d", "e", "f", "A", "B", "C", "D", "E", "F"}

\* The escape \uXXXX, of six characters, stands at position i of s.
IsUnicodeEscape(s, i) ==
    /\ Slice(s, i, i + 1) = "\\u"
    /\ \A k \in 2..5 : Char(s, i + k) \in HexDigits

\* A string's characters up to its closing quote; i is after the opening one.
RECURSIVE StringEnd(_, _)
StringEnd(s, i) ==
    LET c == Char(s, i) IN
    IF c = "" \/ c \in {"\n", "\t", "\r"} THEN 0
    ELSE IF c = Quote THEN i + 1
    ELSE IF c = "\\"
         THEN IF Char(s, i + 1) \in {Quote, "\\", "/", "b", "f", "n", "r", "t"}
              THEN StringEnd(s, i + 2)
              ELSE IF IsUnicodeEscape(s, i) THEN StringEnd(s, i + 6)
              ELSE 0
    ELSE StringEnd(s, i + 1)

RECURSIVE DigitsEnd(_, _)
DigitsEnd(s, i) == IF Char(s, i) \in Digits THEN DigitsEnd(s, i + 1) ELSE i

\* An integer: an optional minus sign, then 0 or a run of digits not
\* starting with 0.
NumberEnd(s, i) ==
    LET d == IF Char(s, i) = "-" THEN i + 1 ELSE i IN
    IF Char(s, d) \notin Digits THEN 0
    ELSE IF Char(s, d) = "0" THEN d + 1
    ELSE DigitsEnd(s, d)

RECURSIVE ValueEnd(_, _)
RECURSIVE MembersEnd(_, _)
RECURSIVE ElementsEnd(_, _)

\* The members of an object from the key at position i to the closing brace.
MembersEnd(s, i) ==
    IF Char(s, i) # Quote THEN 0
    ELSE LET k == StringEnd(s, i + 1) IN
         IF k = 0 \/ Char(s, SkipWs(s, k)) # ":" THEN 0
         ELSE LET v == ValueEnd(s, SkipWs(s, SkipWs(s, k) + 1)) IN
              IF v = 0 THEN 0
              ELSE LET e == SkipWs(s, v) IN
                   IF Char(s, e) = "}" THEN e + 1
                   ELSE IF Char(s, e) = "," THEN MembersEnd(s, SkipWs(s, e + 1))
                   ELSE 0

\* The elements of an array from position i to the closing bracket.
ElementsEnd(s, i) ==
    LET v == ValueEnd(s, i) IN
    IF v = 0 THEN 0
    ELSE LET e == SkipWs(s, v) IN
         IF Char(s, e) = "]" THEN e + 1
         ELSE IF Char(s, e) = "," THEN ElementsEnd(s, SkipWs(s, e + 1))
         ELSE 0

ValueEnd(s, i) ==
    LET c == Char(s, i) IN
    IF c = "{"
    THEN IF Char(s, SkipWs(s, i + 1)) = "}" THEN SkipWs(s, i + 1) + 1
         ELSE MembersEnd(s, SkipWs(s, i + 1))
    ELSE IF c = "["
    THEN IF Char(s, SkipWs(s, i + 1)) = "]" THEN SkipWs(s, i + 1) + 1
         ELSE ElementsEnd(s, SkipWs(s, i + 1))
    ELSE IF c = Quote THEN StringEnd(s, i + 1)
    ELSE IF c = "-" \/ c \in Digits THEN NumberEnd(s, i)
    ELSE IF Slice(s, i, i + 3) \in {"true", "null"} THEN i + 4
    ELSE IF Slice(s, i, i + 4) = "false" THEN i + 5
    ELSE 0

\* json.loads(s) returns: s is one JSON value, with nothing but whitespace
\* around it.
IsJson(s) ==
    LET v == ValueEnd(s, SkipWs(s, 1)) IN
    v # 0 /\ SkipWs(s, v) = Len(s) + 1

\* ------------------------------------------------------------ json.loads and json.dump

\* The value json.loads returns is tagged like the values above.  A string
\* is kept as the sequence of its characters; a character the module text
\* cannot hold is kept as the escape that named it: "\\b", "\\f", a
\* \uXXXX escape in lower case, or the two escapes of a surrogate pair.
JChars(units) == [kind |-> "chars", v |-> units]
JBool(b) == [kind |-> "bool", v |-> b]

\* The escape at position i of s names a high or a low surrogate.
HighSurrogateAt(s, i) ==
    /\ IsUnicodeEscape(s, i)
    /\ LowerChar(Char(s, i + 2)) = "d" /\ LowerChar(Char(s, i + 3)) \in {"8", "9", "a", "b"}

LowSurrogateAt(s, i) ==
    /\ IsUnicodeEscape(s, i)
    /\ LowerChar(Char(s, i + 2)) = "d" /\ LowerChar(Char(s, i + 3)) \in {"c", "d", "e", "f"}

\* The character a one-letter escape names.
Unescaped(e) ==
    IF e = "n" THEN "\n" ELSE IF e = "t" THEN "\t" ELSE IF e = "r" THEN "\r"
    ELSE IF e \in {"b", "f"} THEN "\\" \o e
    ELSE e

\* The characters of the string whose opening quote is before position i.
\* A high surrogate followed by a low one is one character; any other
\* surrogate stays in the string alone.
RECURSIVE UnitsFrom(_, _)
UnitsFrom(s, i) ==
    LET c == Char(s, i) IN
    IF c = Quote \/ c = "" THEN <<>>
    ELSE IF c # "\\" THEN <<c>> \o UnitsFrom(s, i + 1)
    ELSE IF HighSurrogateAt(s, i) /\ LowSurrogateAt(s, i + 6)
         THEN <<Lower(Slice(s, i, i + 11))>> \o UnitsFrom(s, i + 12)
    ELSE IF IsUnicodeEscape(s, i) THEN <<Lower(Slice(s, i, i + 5))>> \o UnitsFrom(s, i + 6)
    ELSE <<Unescaped(Char(s, i + 1))>> \o UnitsFrom(s, i + 2)

\* A character that is a surrogate on its own: utf-8 cannot encode it.
IsLoneSurrogate(unit) == Len(unit) = 6 /\ (HighSurrogateAt(unit, 1) \/ LowSurrogateAt(unit, 1))

\* int() of a run of digits.
RECURSIVE NatOf(_)
NatOf(digits) ==
    IF digits = "" THEN 0
    ELSE 10 * NatOf(Slice(digits, 1, Len(digits) - 1))
         + (CHOOSE d \in 0..9 : Digit(d) = Char(digits, Len(digits)))

IntOf(text) == IF Char(text, 1) = "-" THEN 0 - NatOf(Slice(text, 2, Len(text))) ELSE NatOf(text)

\* dict[key] = value on a dict kept as a sequence of pairs: a key already
\* there keeps its place and takes the new value.
Put(pairs, key, value) ==
    IF \E k \in 1..Len(pairs) : pairs[k][1] = key
    THEN [k \in 1..Len(pairs) |-> IF pairs[k][1] = key THEN <<key, value>> ELSE pairs[k]]
    ELSE Append(pairs, <<key, value>>)

NoValue == [next |-> 0, val |-> JNull]

\* The value read from position i of s and the position after it; next is
\* 0 when the text is not JSON there.
RECURSIVE ValueAt(_, _)
RECURSIVE MembersAt(_, _, _)
RECURSIVE ElementsAt(_, _, _)

MembersAt(s, i, pairs) ==
    LET k == StringEnd(s, i + 1)
        v == ValueAt(s, SkipWs(s, SkipWs(s, k) + 1))
        more == Put(pairs, UnitsFrom(s, i + 1), v.val)
        e == SkipWs(s, v.next)
    IN  IF Char(s, i) # Quote \/ k = 0 \/ Char(s, SkipWs(s, k)) # ":" THEN NoValue
        ELSE IF v.next = 0 THEN NoValue
        ELSE IF Char(s, e) = "}" THEN [next |-> e + 1, val |-> JDict(more)]
        ELSE IF Char(s, e) = "," THEN MembersAt(s, SkipWs(s, e + 1), more)
        ELSE NoValue

ElementsAt(s, i, items) ==
    LET v == ValueAt(s, i)
        e == SkipWs(s, v.next)
    IN  IF v.next = 0 THEN NoValue
        ELSE IF Char(s, e) = "]" THEN [next |-> e + 1, val |-> JList(Append(items, v.val))]
        ELSE IF Char(s, e) = "," THEN ElementsAt(s, SkipWs(s, e + 1), Append(items, v.val))
        ELSE NoValue

ValueAt(s, i) ==
    LET c == Char(s, i)
        j == SkipWs(s, i + 1)
    IN
    IF c = "{"
    THEN IF Char(s, j) = "}" THEN [next |-> j + 1, val |-> JDict(<<>>)]
         ELSE MembersAt(s, j, <<>>)
    ELSE IF c = "["
    THEN IF Char(s, j) = "]" THEN [next |-> j + 1, val |-> JList(<<>>)]
         ELSE ElementsAt(s, j, <<>>)
    ELSE IF c = Quote
    THEN IF StringEnd(s, i + 1) = 0 THEN NoValue
         ELSE [next |-> StringEnd(s, i + 1), val |-> JChars(UnitsFrom(s, i + 1))]
    ELSE IF c = "-" \/ c \in Digits
    THEN IF NumberEnd(s, i) = 0 THEN NoValue
         ELSE [next |-> NumberEnd(s, i), val |-> JNum(IntOf(Slice(s, i, NumberEnd(s, i) - 1)))]
    ELSE IF Slice(s, i, i + 3) = "true" THEN [next |-> i + 4, val |-> JBool(TRUE)]
    ELSE IF Slice(s, i, i + 3) = "null" THEN [next |-> i + 4, val |-> JNull]
    ELSE IF Slice(s, i, i + 4) = "false" THEN [next |-> i + 5, val |-> JBool(FALSE)]
    ELSE NoValue

\* json.loads(s): the value, when s is JSON.
Loads(s) ==
    LET r == ValueAt(s, SkipWs(s, 1)) IN
    IF r.next # 0 /\ SkipWs(s, r.next) = Len(s) + 1 THEN [ok |-> TRUE, val |-> r.val]
    ELSE [ok |-> FALSE, val |-> JNull]

\* json.dump(value, f, indent=2, ensure_ascii=False) writes the text piece
\* by piece, and the file encodes each piece to utf-8 as it takes it: a
\* piece is its text and whether utf-8 can encode it.
Piece(text) == [text |-> text, ok |-> TRUE]

\* A character inside a JSON string as the encoder writes it.
EscapeUnit(unit) ==
    IF unit = Quote THEN "\\\""
    ELSE IF unit = "\\" THEN "\\\\"
    ELSE IF unit = "\n" THEN "\\n"
    ELSE IF unit = "\t" THEN "\\t"
    ELSE IF unit = "\r" THEN "\\r"
    ELSE unit

EncodeString(units) ==
    [text |-> Quote \o Join("", [k \in 1..Len(units) |-> EscapeUnit(units[k])]) \o Quote,
     ok |-> \A k \in 1..Len(units) : ~IsLoneSurrogate(units[k])]

IsContainer(value) == value.kind \in {"list", "dict"}

\* The one piece of a value that is not a list or a dict.
EncodeScalar(value) ==
    IF value.kind = "chars" THEN EncodeString(value.v)
    ELSE IF value.kind = "int" THEN Piece(IntToStr(value.v))
    ELSE IF value.kind = "bool" THEN Piece(IF value.v THEN "true" ELSE "false")
    ELSE Piece("null")

RECURSIVE Spaces(_)
Spaces(n) == IF n = 0 THEN "" ELSE " " \o Spaces(n - 1)

NewlineIndent(level) == "\n" \o Spaces(2 * level)

RECURSIVE Pieces(_, _)
RECURSIVE ListPieces(_, _, _)
RECURSIVE DictPieces(_, _, _)

\* The items of a list from item k on, at the level of the items: a scalar
\* goes out in one piece with the separator before it.
ListPieces(items, k, level) ==
    IF k > Len(items) THEN <<Piece(NewlineIndent(level - 1)), Piece("]")>>
    ELSE LET buf == (IF k = 1 THEN "[" ELSE ",") \o NewlineIndent(level)
             item == EncodeScalar(items[k])
         IN  (IF IsContainer(items[k])
              THEN <<Piece(buf)>> \o Pieces(items[k], level)
              ELSE <<[text |-> buf \o item.text, ok |-> item.ok]>>)
             \o ListPieces(items, k + 1, level)

\* The members of a dict from member k on: the separator, the key, the
\* colon and the value are pieces of their own.
DictPieces(pairs, k, level) ==
    IF k > Len(pairs) THEN <<Piece(NewlineIndent(level - 1)), Piece("}")>>
    ELSE (IF k = 1 THEN <<Piece("{"), Piece(NewlineIndent(level))>>
          ELSE <<Piece("," \o NewlineIndent(level))>>)
         \o <<EncodeString(pairs[k][1]), Piece(": ")>>
         \o Pieces(pairs[k][2], level)
         \o DictPieces(pairs, k + 1, level)

\* The pieces of a value inside `level` containers.
Pieces(value, level) ==
    IF value.kind = "list"
    THEN IF value.v = <<>> THEN <<Piece("[]")>> ELSE ListPieces(value.v, 1, level + 1)
    ELSE IF value.kind = "dict"
    THEN IF value.v = <<>> THEN <<Piece("{}")>> ELSE DictPieces(value.v, 1, level + 1)
    ELSE <<EncodeScalar(value)>>

\* The pieces before the first one utf-8 cannot encode.
RECURSIVE EncodedPrefix(_, _)
EncodedPrefix(pieces, k) ==
    IF k > Len(pieces) \/ ~pieces[k].ok THEN ""
    ELSE pieces[k].text \o EncodedPrefix(pieces, k + 1)

\* Lines 311-312: the text the file holds when the with block is left, and
\* the exception that left it, "" for none.
Dump(value) ==
    LET pieces == Pieces(value, 0) IN
    [text |-> EncodedPrefix(pieces, 1),
     raised |-> IF \A k \in 1..Len(pieces) : pieces[k].ok THEN "" ELSE "UnicodeEncodeError"]


\* ------------------------------------------------------------ convert_pde_to_json_file

OUTPUT_DIR == "random_pde_jsons"

\* Lines 294-303: the text handed to json.loads for a returned text.
JsonCandidate(response) ==
    LET content == Strip(response)
        parts == Split(content, Fence)
        stripped == [i \in 1..Len(parts) |-> Strip(parts[i])]
        candidates == SelectSeq(stripped, LAMBDA part : part # "")
    IN  IF StartsWith(content, Fence) /\ candidates # <<>> THEN MaxByLen(candidates)
        ELSE content

\* Lines 310-312: the files after `content` is written at `path`.
Written(fs, path, content) == {f \in fs : f[1] # path} \cup {<<path, content>>}

\* Lines 245-314, for the text the generator returned: the path returned
\* or the exception raised, and the files afterwards.  open(..., "w")
\* truncates the file before json.dump writes to it.
convert_pde_to_json_file(pde_name, response, fs) ==
    LET content == JsonCandidate(response)
        loaded == Loads(content)
        output_path == OUTPUT_DIR \o "/" \o pde_name \o ".json"
        dumped == Dump(loaded.val)
    IN  IF ~loaded.ok THEN [raised |-> "ValueError", val |-> "", files |-> fs]
        ELSE [raised |-> dumped.raised,
              val |-> IF dumped.raised = "" THEN output_path ELSE "",
              files |-> Written(fs, output_path, dumped.text)]

\* ------------------------------------------------------------ the batch drivers

\* Most entries of random_pde_list.json drawn as input.
MaxEntries == 3

\* Texts the generator may return: JSON, JSON with whitespace around it,
\* fenced JSON without and with a language tag, prose, nothing, a lone
\* fence, cut-off JSON, fenced JSON followed by a longer remark, an array,
\* a key given twice, a string with a surrogate pair, a string with a
\* surrogate on its own.
Responses ==
    {"{\"a\": 1}",
     "  {\"a\": 1}\n",
     Fence \o "\n{\"b\": [true, -20]}\n" \o Fence,
     Fence \o "json\n{\"a\": 1}\n" \o Fence,
     "Here is the JSON you asked for.",
     "",
     Fence,
     "{\"a\": 1",
     Fence \o "\n{}\n" \o Fence \o "\nDone as asked.",
     "[1, {\"b\": null}]",
     "{\"a\": 1, \"b\": \"x\", \"a\": -0}",
     "{\"a\": \"\\ud83d\\ude00\"}",
     "{\"a\": \"\\ud800\"}"}

\* Entries of random_pde_list.json: two with a name, one without.
ExampleEntries == {[name |-> "heat"], [name |-> "wave"], [equation |-> "u_t = u_xx"]}

EntryLists == UNION {[1..k -> ExampleEntries] : k \in 0..MaxEntries}

\* generate_pde_jsons.main, lines 322-335: the two entries of its dict.
BuiltinPdes == <<[name |-> "heat_equation_1d"], [name |-> "wave_equation_1d"]>>

\* The output directory at the start: empty, or with a file of an earlier run.
InitialFiles == {{}, {<<"random_pde_jsons/heat.json", "{}">>}}

NoExamplesFile == [isfile |-> FALSE, entries |-> <<>>]

BatchInit ==
    /\ \/ program = "generate_pde_jsons" /\ example_pdes = NoExamplesFile
       \/ /\ program = "generate_from_example_pdes"
          /\ \/ example_pdes = NoExamplesFile
             \/ \E es \in EntryLists : example_pdes = [isfile |-> TRUE, entries |-> es]
    /\ examples = <<>> /\ pos = 0 /\ invoked = <<>> /\ returned = <<>>
    /\ files \in InitialFiles
    /\ bpc = "main"
    /\ RenderIdle
    /\ ClassifyIdle
    /\ PrintIdle

\* generate_from_example_pdes.main, lines 115-119.
LoadExamples ==
    /\ bpc = "main" /\ program = "generate_from_example_pdes"
    /\ IF ~example_pdes.isfile
       THEN bpc' = "raised" /\ UNCHANGED <<examples, pos>>
       ELSE bpc' = "loop" /\ examples' = example_pdes.entries /\ pos' = 1
    /\ UNCHANGED <<program, example_pdes, invoked, returned, files,
                   renderVars, classifyVars, printVars>>

\* generate_pde_jsons.main, lines 322-337.
LoadBuiltin ==
    /\ bpc = "main" /\ program = "generate_pde_jsons"
    /\ bpc' = "loop" /\ examples' = BuiltinPdes /\ pos' = 1
    /\ UNCHANGED <<program, example_pdes, invoked, returned, files,
                   renderVars, classifyVars, printVars>>

\* One turn of the loop of either driver (lines 121-126, lines 337-339):
\* the call of convert_pde_to_json_file for the entry at pos, with whatever
\* text the generator returns.  Neither loop catches an exception, so one
\* raised by the call ends main.
ConvertEntry ==
    /\ bpc = "loop" /\ pos <= Len(examples)
    /\ \E response \in Responses :
          LET name == Get(examples[pos], "name", "unnamed_pde")
              result == convert_pde_to_json_file(name, response, files)
          IN  /\ invoked' = Append(invoked, name)
              /\ returned' = Append(returned, response)
              /\ files' = result.files
              /\ IF result.raised # "" THEN bpc' = "raised" /\ pos' = pos
                 ELSE bpc' = "loop" /\ pos' = pos + 1
    /\ UNCHANGED <<program, example_pdes, examples, renderVars, classifyVars, printVars>>

\* The loop is over and main returns.
BatchReturn ==
    /\ bpc = "loop" /\ pos > Len(examples)
    /\ bpc' = "done"
    /\ UNCHANGED <<program, example_pdes, examples, pos, invoked, returned, files,
                   renderVars, classifyVars, printVars>>

BatchNext ==
    \/ LoadExamples
    \/ LoadBuiltin
    \/ ConvertEntry
    \/ BatchReturn

SpecBatch == BatchInit /\ [][BatchNext]_vars

\* ------------------------------------------------------------ claims on the batch drivers

\* The names of the entries the driver's loop is given.
BatchNames == [i \in 1..Len(examples) |-> Get(examples[i], "name", "unnamed_pde")]

\* C3: a returned text that fails to parse fails its own entry only: when
\* main has ended, by returning or by an exception,
\* convert_pde_to_json_file has been invoked for every entry of the batch.
C3_LaterEntriesProcessed ==
    bpc \in {"done", "raised"} => invoked = BatchNames

\* The i-th call of convert_pde_to_json_file raised: an exception ends
\* main, so it is the last call of a run that ended by an exception.
CallRaised(i) == i = Len(returned) /\ bpc = "raised"

\* The path convert_pde_to_json_file writes for a pde_name, line 310.
OutputPath(pde_name) == OUTPUT_DIR \o "/" \o pde_name \o ".json"

\* The characters of a language tag.
TagChars == DOMAIN ToLower \cup {Char(LowerCase, k) : k \in 1..Len(LowerCase)}

\* Where the first line of s ends: the position of its first newline, or
\* 0 when s has none.
FirstNewline(s) ==
    IF HasChar(s, "\n")
    THEN CHOOSE i \in 1..Len(s) :
             Char(s, i) = "\n" /\ \A j \in 1..(i - 1) : Char(s, j) # "\n"
    ELSE 0

\* A text read as a Markdown code block: it is `fenced` when, whitespace
\* around it aside, it opens with a fence and an optional language tag of
\* letters on the fence's line and closes with a fence; `body` is what
\* lies between the opening line and the closing fence.
FencedBody(text) ==
    LET s == Strip(text)
        nl == FirstNewline(s)
        tag == Slice(s, Len(Fence) + 1, nl - 1)
    IN  [fenced |-> /\ StartsWith(s, Fence)
                    /\ nl # 0 /\ nl + Len(Fence) <= Len(s)
                    /\ Slice(s, Len(s) - Len(Fence) + 1, Len(s)) = Fence
                    /\ \A k \in 1..Len(tag) : Char(tag, k) \in TagChars,
         body |-> Slice(s, nl + 1, Len(s) - Len(Fence))]

\* The text with its fence wrapping, if it has one, removed.
Unwrapped(text) ==
    IF FencedBody(text).fenced THEN Strip(FencedBody(text).body) ELSE Strip(text)

\* s is the text of one JSON object.
IsJsonObject(s) == IsJson(s) /\ Char(LStrip(s), 1) = "{"

\* C11: in every call of convert_pde_to_json_file, a returned text that is
\* a JSON object wrapped in a code fence, with or without a language tag
\* after the opening fence, is parsed and saved: the call does not raise
\* and the file of its pde_name exists afterwards; and the call raises
\* only when the text, its fence wrapping removed, is not JSON.
C11_FencedJsonParses ==
    \A i \in 1..Len(returned) :
        /\ ( FencedBody(returned[i]).fenced /\ IsJsonObject(FencedBody(returned[i]).body) )
           => /\ ~CallRaised(i)
              /\ i = Len(returned) => \E f \in files : f[1] = OutputPath(invoked[i])
        /\ CallRaised(i) => ~IsJson(Unwrapped(returned[i]))

\* ------------------------------------------------------------ claims on condition records

\* The place a condition record carries, under whichever of its two keys;
\* the empty mapping when it carries neither.
CarriedPlace(c) ==
    IF HasKey(c, "location") THEN c.location
    ELSE IF HasKey(c, "spec") THEN c.spec
    ELSE JDict(<<>>)

\* A place shown verbatim: a mapping's entries as key=value joined by ", "
\* ("?" for a mapping without entries), a string as it is, any other value
\* as str() gives it.
VerbatimPlace(place) ==
    IF place.kind = "dict"
    THEN IF place.v = <<>> THEN "?"
         ELSE Join(", ", [i \in 1..Len(place.v) |->
                            place.v[i][1] \o "=" \o PyStr(place.v[i][2])])
    ELSE IF place.kind = "str" THEN place.v
    ELSE PyStr(place)

\* The line of a condition record: its own type (default_type without
\* one), its dep, its place verbatim, its value and its notes.
ExpectedConditionText(c, default_type) ==
    "  [" \o Get(c, "type", default_type) \o "] " \o Get(c, "dep", "?") \o " at "
    \o VerbatimPlace(CarriedPlace(c)) \o ": "
    \o expr_to_str(Get(c, "value_expr", EmptyMapping)).val
    \o (IF Get(c, "notes", "") # "" THEN " (" \o c.notes \o ")" ELSE "")

\* The texts of the lines printed by the print call of source line `at`.
TextsAt(at) == [i \in 1..Len(PrintedAt(at)) |-> PrintedAt(at)[i].text]

\* C12: once the initial_conditions section is printed it has one line per
\* record, in list order, each with the record's own type and the place
\* the record carries, under location or under spec, shown verbatim; and
\* the same for the boundary_conditions section.
C12_ConditionsVerbatim ==
    /\ (pc \in {"top_bcs", "done"} \/ PrintedAt(181) # <<>>) =>
          LET top_ics == DictGet(data, "initial_conditions", <<>>) IN
          TextsAt(178) = [i \in 1..Len(top_ics) |-> ExpectedConditionText(top_ics[i], "ic")]
    /\ pc = "done" =>
          LET top_bcs == DictGet(data, "boundary_conditions", <<>>) IN
          TextsAt(201) = [i \in 1..Len(top_bcs) |-> ExpectedConditionText(top_bcs[i], "?")]

\* ------------------------------------------------------------ claims on optional fields

\* The Document has the top-level key.
HasField(d, key) == \E i \in 1..Len(d) : d[i][1] = key

HasDescription(d) == HasKey(DictGet(d, "metadata", EmptyMapping), "description")

\* The Document with every optional field it lacks added: a description
\* in its metadata, a domain, initial_conditions and boundary_conditions.
FullOf(d) ==
    LET meta == DictGet(d, "metadata", EmptyMapping)
        described == IF HasKey(meta, "description") THEN meta
                     ELSE [k \in DOMAIN meta \cup {"description"} |->
                              IF k = "description" THEN "Flow" ELSE meta[k]]
        Added(key, value) == IF HasField(d, key) THEN <<>> ELSE <<<<key, value>>>>
    IN  [i \in 1..Len(d) |-> IF d[i][1] = "metadata" THEN <<"metadata", described>> ELSE d[i]]
        \o Added("metadata", described)
        \o Added("domain", Domain)
        \o Added("initial_conditions", InitialConditions)
        \o Added("boundary_conditions", BoundaryConditions)

\* Printing the Document raises somewhere: in a domain bound, in a side of
\* an equation, or in the value of a condition.
Raises(d) ==
    \/ DomainLines(d).raised # ""
    \/ \E i \in 1..Len(PdesOf(d)) : EquationEntry(PdesOf(d)[i]).raised # ""
    \/ TopIcLines(d).raised # ""
    \/ TopBcLines(d).raised # ""

\* The lines of stdout printed by the print calls of the source lines ats.
SectionAt(ats) == SelectSeq(stdout, LAMBDA l : l.at \in ats)

\* C13: a Document that lacks any of the optional fields (the description,
\* domain, initial_conditions, boundary_conditions) is printed without
\* raising whenever the same Document with these fields added is; nothing
\* at all, heading or line, is printed for a field it lacks; and every
\* other section is what it is for the Document with these fields added.
C13_MissingOptional ==
    LET full == FullOf(data) IN
    /\ pc = "raised" => Raises(full)
    /\ pc = "done" =>
          /\ SectionAt({86}) = <<HeaderLines(full)[1]>>
          /\ SectionAt({88}) = IF HasDescription(data) THEN Tail(HeaderLines(full)) ELSE <<>>
          /\ SectionAt({96, 98}) = VariableLines(full)
          /\ SectionAt({110}) = ParameterLines(full)
          /\ SectionAt({115, 121, 122}) =
                IF HasField(data, "domain") THEN DomainLines(full).lines ELSE <<>>
          /\ SectionAt({145}) = GroupLines(145, EntriesOf(InCategory(PdesOf(full), "pde")))
          /\ SectionAt({149}) = GroupLines(149, EntriesOf(InCategory(PdesOf(full), "boundary")))
          /\ SectionAt({153}) = GroupLines(153, EntriesOf(InCategory(PdesOf(full), "initial")))
          /\ Len(SectionAt({143})) = 1 /\ Len(SectionAt({147})) = 1 /\ Len(SectionAt({151})) = 1
          /\ SectionAt({160, 178}) =
                IF HasField(data, "initial_conditions") THEN TopIcLines(full).lines ELSE <<>>
          /\ SectionAt({181, 201}) =
                IF HasField(data, "boundary_conditions") THEN TopBcLines(full).lines ELSE <<>>

\* C13's case: a Document with boundary_conditions and equations but
\* without description, domain and initial_conditions has been printed.
C13_Witness ==
    /\ pc = "done"
    /\ HasField(data, "metadata") /\ ~HasDescription(data)
    /\ ~HasField(data, "domain") /\ ~HasField(data, "initial_conditions")
    /\ HasField(data, "boundary_conditions")
    /\ SectionAt({88, 115, 121, 122, 160, 178}) = <<>>
    /\ Len(SectionAt({201})) = 4
    /\ SectionAt({145}) # <<>>

\* ------------------------------------------------------------ claims on the output files

\* C14: in every call of convert_pde_to_json_file, when the text the call
\* parses is not JSON the call raises ValueError and the output files are
\* as they were; when it is JSON, the file of the call's pde_name is
\* created or overwritten, every other file is as it was, and the file
\* holds JSON that parses to the value the text parsed to.
C14_OnlyParsedWritten ==
    [][ returned' # returned =>
          LET pde_name == invoked'[Len(invoked')]
              response == returned'[Len(returned')]
              text == JsonCandidate(response)
              path == OutputPath(pde_name)
          IN  IF ~IsJson(text)
              THEN /\ bpc' = "raised"
                   /\ convert_pde_to_json_file(pde_name, response, files).raised = "ValueError"
                   /\ files' = files
              ELSE /\ {f \in files' : f[1] # path} = {f \in files : f[1] # path}
                   /\ \E f \in files' : f[1] = path
                   /\ \A f \in files' :
                         f[1] = path => IsJson(f[2]) /\ Loads(f[2]) = Loads(text)
      ]_vars

====
